---- MODULE Spec2Model ----
(***************************************************************************)
(* Model of the pdf-to-quiz repository.                                    *)
(*                                                                         *)
(*  - the lazy-loading quiz session (the Quiz component with the           *)
(*    onNeedMoreQuestions prop): its React state, its event handlers, the  *)
(*    preloading effect and the outstanding onNeedMoreQuestions promise;   *)
(*  - the batch validator run by the generation route when the model       *)
(*    output is finished (questionsSchema.safeParse in onFinish).          *)
(*                                                                         *)
(* Array indices are 0-based in the source and 1-based here: the source's  *)
(* questions[i] is questions[i + 1].                                       *)
(***************************************************************************)
EXTENDS Integers, Sequences, FiniteSets, TLC

VARIABLES
    initialQuestions,      \* the questions prop (the initial batch)
    questions,             \* useState(initialQuestions)
    currentQuestionIndex,  \* useState(0)
    answers,               \* useState([])
    score,                 \* useState(0)
    hasAnswered,           \* useState(false)
    isComplete,            \* useState(false)
    feedbackMessage,       \* useState('')
    isLoadingMore,         \* useState(false)
    showExplanation,       \* useState(false)
    mounted,               \* FALSE once a render has thrown (component tree unmounted)
    inflight,              \* number of onNeedMoreQuestions() promises not yet settled
    fetchCount,            \* number of onNeedMoreQuestions() calls made so far
    lastOp,                \* the last event handled: [op, arg]
    object,                \* the finished model output handed to onFinish
    onFinishResult         \* "pending", "ok" (onFinish returned) or "error" (onFinish threw)

quizVars == <<initialQuestions, questions, currentQuestionIndex, answers, score,
              hasAnswered, isComplete, feedbackMessage, isLoadingMore,
              showExplanation, mounted, inflight, fetchCount, lastOp>>
routeVars == <<object, onFinishResult>>
vars == <<initialQuestions, questions, currentQuestionIndex, answers, score,
          hasAnswered, isComplete, feedbackMessage, isLoadingMore,
          showExplanation, mounted, inflight, fetchCount, lastOp,
          object, onFinishResult>>

----------------------------------------------------------------------------
(* Bounds *)

\* onNeedMoreQuestions() is called at most MaxFetches times in a behaviour.
MaxFetches == 2

\* The user clicks one of the first NumUserLabels option buttons.
NumUserLabels == 2

\* The user advances at most to index MaxIndex.
MaxIndex == 5

\* A finished model output has at most MaxItems elements.
MaxItems == 5

----------------------------------------------------------------------------
(* Program constants *)

\* z.array(questionSchema).length(4)
BatchSize == 4

\* z.array(z.string()).length(4)
NumOptions == 4

\* the preloading distance of the effect: questions.length - 2
PreloadDistance == 2

\* const answerLabels = ['A', 'B', 'C', 'D']
answerLabels == <<"A", "B", "C", "D">>

\* z.enum(["A", "B", "C", "D"])
AnswerEnum == {"A", "B", "C", "D"}

UserLabels == {answerLabels[i] : i \in 1..NumUserLabels}

----------------------------------------------------------------------------
(* Questions of a session: the fields the component reads *)

MkQuestion(text, ans) == [question |-> text, answer |-> ans]

MkBatch(name, answerSeq) ==
    [i \in 1..BatchSize |-> MkQuestion(<<name, i>>, answerSeq[i])]

\* The batches the generation service can deliver.
Batches ==
    { MkBatch("x", <<"A", "B", "A", "C">>),
      MkBatch("y", <<"B", "B", "D", "A">>) }

----------------------------------------------------------------------------
(* Helpers that follow the JavaScript semantics of the source *)

NoAnswer == "empty"   \* a hole / undefined element of the answers array

SetAt_OffByOne(arr, i, v) ==
    [k \in 1..(IF i + 2 > Len(arr) THEN i + 2 ELSE Len(arr)) |->
        IF k = i + 2 THEN v
        ELSE IF k <= Len(arr) THEN arr[k] ELSE NoAnswer]

\* newAnswers = [...arr]; newAnswers[i] = v   (i is 0-based; an index past
\* the end leaves holes in between)
SetAt(arr, i, v) ==
    [k \in 1..(IF i + 1 > Len(arr) THEN i + 1 ELSE Len(arr)) |->
        IF k = i + 1 THEN v
        ELSE IF k <= Len(arr) THEN arr[k] ELSE NoAnswer]

\* arr.slice(0, n)
Slice0(arr, n) == SubSeq(arr, 1, IF n < Len(arr) THEN n ELSE Len(arr))

NoFeedback == [kind |-> "none", answer |-> "-"]
CorrectFeedback == [kind |-> "correct", answer |-> "-"]
IncorrectFeedback(ans) == [kind |-> "incorrect", answer |-> ans]

\* feedbackMessage.includes('Correct'): true of 'Correct! ...' only
\* ('Incorrect. The correct answer was X' has no capital-C 'Correct').
IncludesCorrect(msg) == msg.kind = "correct"

NoOp == [op |-> "init", arg |-> "-"]
Op(name) == [op |-> name, arg |-> "-"]
OpArg(name, a) == [op |-> name, arg |-> a]

----------------------------------------------------------------------------
(* Rendering and the preloading effect *)

\* The render reads question.question of questions[currentQuestionIndex]
\* in QuestionCard whenever the quiz is not complete: it throws when that
\* element is undefined.
RenderThrows(qs, idx, complete) == ~complete /\ ~(idx < Len(qs))

LoadMoreCondition_NoLoadingGuard(idx, len, loading, complete) ==
    idx >= len - PreloadDistance /\ ~complete

LoadMoreCondition_NoCompleteGuard(idx, len, loading, complete) ==
    idx >= len - PreloadDistance /\ ~loading

\* the condition of loadMoreIfNeeded
LoadMoreCondition(idx, len, loading, complete) ==
    idx >= len - PreloadDistance /\ ~loading /\ ~complete

\* What follows every state update: the component re-renders with the new
\* state; if the render throws the tree is unmounted and no effect runs;
\* otherwise the effect runs (one of its dependencies changed, or it is
\* skipped with the same outcome since the condition reads only its
\* dependencies) and, when its condition holds, sets isLoadingMore and
\* calls onNeedMoreQuestions().  loadingNow and inflightNow are the values
\* after the handler, before the effect.
Commit(loadingNow, inflightNow) ==
    IF RenderThrows(questions', currentQuestionIndex', isComplete')
    THEN /\ mounted' = FALSE
         /\ isLoadingMore' = loadingNow
         /\ inflight' = inflightNow
         /\ fetchCount' = fetchCount
    ELSE /\ mounted' = TRUE
         /\ IF LoadMoreCondition(currentQuestionIndex', Len(questions'),
                                 loadingNow, isComplete')
            THEN /\ fetchCount < MaxFetches
                 /\ isLoadingMore' = TRUE
                 /\ inflight' = inflightNow + 1
                 /\ fetchCount' = fetchCount + 1
            ELSE /\ isLoadingMore' = loadingNow
                 /\ inflight' = inflightNow
                 /\ fetchCount' = fetchCount

----------------------------------------------------------------------------
(* The quiz session *)

QuizInit ==
    /\ initialQuestions \in Batches
    /\ questions = initialQuestions
    /\ currentQuestionIndex = 0
    /\ answers = <<>>
    /\ score = 0
    /\ hasAnswered = FALSE
    /\ isComplete = FALSE
    /\ feedbackMessage = NoFeedback
    /\ showExplanation = FALSE
    /\ mounted = TRUE
    \* the effect of the first render: no call with a full initial batch
    /\ isLoadingMore = LoadMoreCondition(0, Len(initialQuestions), FALSE, FALSE)
    /\ inflight = (IF isLoadingMore THEN 1 ELSE 0)
    /\ fetchCount = inflight
    /\ lastOp = NoOp

RouteIdle ==
    /\ object = [t |-> "undefined"]
    /\ onFinishResult = "pending"

Init == QuizInit /\ RouteIdle

SelectGuard_Always(answered) == TRUE

\* if (!hasAnswered)
SelectGuard(answered) == ~answered

IsCorrect_Always(answer, q) == TRUE

IsCorrect_FirstOption(answer, q) == answer = "A"

\* const isCorrect = answer === questions[currentQuestionIndex].answer
IsCorrect(answer, q) == answer = q.answer

\* handleSelectAnswer(answer), reached by a click on an option button of
\* the rendered question card.
SelectAnswer(label) ==
    /\ mounted /\ ~isComplete
    /\ lastOp' = OpArg("selectAnswer", label)
    /\ IF SelectGuard(hasAnswered)
       THEN /\ answers' = SetAt(answers, currentQuestionIndex, label)
            /\ hasAnswered' = TRUE
            /\ IF IsCorrect(label, questions[currentQuestionIndex + 1])
               THEN /\ score' = score + 1
                    /\ feedbackMessage' = CorrectFeedback
               ELSE /\ score' = score
                    /\ feedbackMessage' =
                         IncorrectFeedback(questions[currentQuestionIndex + 1].answer)
       ELSE UNCHANGED <<answers, hasAnswered, score, feedbackMessage>>
    /\ UNCHANGED <<initialQuestions, questions, currentQuestionIndex,
                   isComplete, showExplanation, object, onFinishResult>>
    /\ Commit(isLoadingMore, inflight)

\* onClick={() => setShowExplanation(true)}: the button is rendered when
\* the answer given was not the correct one and no explanation is shown.
ExplainThisConcept ==
    /\ mounted /\ ~isComplete /\ hasAnswered
    /\ ~IncludesCorrect(feedbackMessage) /\ ~showExplanation
    /\ showExplanation' = TRUE
    /\ lastOp' = Op("explain")
    /\ UNCHANGED <<initialQuestions, questions, currentQuestionIndex, answers,
                   score, hasAnswered, isComplete, feedbackMessage,
                   object, onFinishResult>>
    /\ Commit(isLoadingMore, inflight)

NextQuestion_KeepsExplanation ==
    /\ mounted /\ ~isComplete /\ hasAnswered
    /\ currentQuestionIndex < MaxIndex
    /\ currentQuestionIndex' = currentQuestionIndex + 1
    /\ hasAnswered' = FALSE
    /\ feedbackMessage' = NoFeedback
    /\ lastOp' = Op("advance")
    /\ UNCHANGED <<initialQuestions, questions, answers, score, isComplete,
                   showExplanation, object, onFinishResult>>
    /\ Commit(isLoadingMore, inflight)

NextQuestion_NoAnsweredGuard ==
    /\ mounted /\ ~isComplete
    /\ currentQuestionIndex < MaxIndex
    /\ currentQuestionIndex' = currentQuestionIndex + 1
    /\ hasAnswered' = FALSE
    /\ feedbackMessage' = NoFeedback
    /\ showExplanation' = FALSE
    /\ lastOp' = Op("advance")
    /\ UNCHANGED <<initialQuestions, questions, answers, score, isComplete,
                   object, onFinishResult>>
    /\ Commit(isLoadingMore, inflight)

\* handleNextQuestion: the Next Question button is rendered when hasAnswered.
NextQuestion ==
    /\ mounted /\ ~isComplete /\ hasAnswered
    /\ currentQuestionIndex < MaxIndex
    /\ currentQuestionIndex' = currentQuestionIndex + 1
    /\ hasAnswered' = FALSE
    /\ feedbackMessage' = NoFeedback
    /\ showExplanation' = FALSE
    /\ lastOp' = Op("advance")
    /\ UNCHANGED <<initialQuestions, questions, answers, score, isComplete,
                   object, onFinishResult>>
    /\ Commit(isLoadingMore, inflight)

ShowResults_OnlyWhenAnswered ==
    /\ mounted /\ ~isComplete /\ hasAnswered
    /\ isComplete' = TRUE
    /\ lastOp' = Op("requestResults")
    /\ UNCHANGED <<initialQuestions, questions, currentQuestionIndex, answers,
                   score, hasAnswered, feedbackMessage, showExplanation,
                   object, onFinishResult>>
    /\ Commit(isLoadingMore, inflight)

\* handleShowResults: the Show Results button is rendered while not complete.
ShowResults ==
    /\ mounted /\ ~isComplete
    /\ isComplete' = TRUE
    /\ lastOp' = Op("requestResults")
    /\ UNCHANGED <<initialQuestions, questions, currentQuestionIndex, answers,
                   score, hasAnswered, feedbackMessage, showExplanation,
                   object, onFinishResult>>
    /\ Commit(isLoadingMore, inflight)

ResetQuestions_KeepsAppended(init, cur) == cur

\* setQuestions(initialQuestions)
ResetQuestions(init, cur) == init

\* handleReset: the Continue Quiz button is rendered on the results screen.
Reset ==
    /\ mounted /\ isComplete
    /\ answers' = <<>>
    /\ currentQuestionIndex' = 0
    /\ score' = 0
    /\ hasAnswered' = FALSE
    /\ isComplete' = FALSE
    /\ questions' = ResetQuestions(initialQuestions, questions)
    /\ showExplanation' = FALSE
    /\ lastOp' = OpArg("reset", IF Len(questions) > Len(initialQuestions)
                                 THEN "appended" ELSE "-")
    /\ UNCHANGED <<initialQuestions, feedbackMessage, object, onFinishResult>>
    /\ Commit(isLoadingMore, inflight)

FailureQuestions_Cleared(prev) == <<>>

\* catch (error) { console.error(...) }: no setQuestions call
FailureQuestions(prev) == prev

AppendBatch_Replace(prev, new) == new

AppendBatch_Prepend(prev, new) == new \o prev

\* setQuestions((prevQuestions) => [...prevQuestions, ...newQuestions])
AppendBatch(prev, new) == prev \o new

FetchSuccessBody_LosesProgress(newQuestions) ==
    /\ inflight > 0
    /\ lastOp' = Op("fetchSuccess")
    /\ UNCHANGED <<initialQuestions, currentQuestionIndex,
                   hasAnswered, isComplete, feedbackMessage, showExplanation>>
    /\ IF mounted
       THEN /\ questions' = AppendBatch(questions, newQuestions)
            /\ answers' = <<>>
            /\ score' = 0
            /\ Commit(FALSE, inflight - 1)
       ELSE /\ inflight' = inflight - 1
            /\ UNCHANGED <<questions, answers, score, isLoadingMore, mounted,
                           fetchCount>>

\* The promise of onNeedMoreQuestions() resolves with a batch: the rest of
\* loadMoreIfNeeded runs (setQuestions, setIsLoadingMore(false)).  State
\* updates of an unmounted component are dropped.
FetchSuccessBody(newQuestions) ==
    /\ inflight > 0
    /\ lastOp' = Op("fetchSuccess")
    /\ UNCHANGED <<initialQuestions, currentQuestionIndex, answers, score,
                   hasAnswered, isComplete, feedbackMessage, showExplanation>>
    /\ IF mounted
       THEN /\ questions' = AppendBatch(questions, newQuestions)
            /\ Commit(FALSE, inflight - 1)
       ELSE /\ inflight' = inflight - 1
            /\ UNCHANGED <<questions, isLoadingMore, mounted, fetchCount>>

FetchSuccess(newQuestions) ==
    /\ FetchSuccessBody(newQuestions)
    /\ UNCHANGED <<object, onFinishResult>>

FetchFailureBody_FlagStuck ==
    /\ inflight > 0
    /\ lastOp' = Op("fetchFailure")
    /\ UNCHANGED <<initialQuestions, currentQuestionIndex, answers, score,
                   hasAnswered, isComplete, feedbackMessage, showExplanation>>
    /\ IF mounted
       THEN /\ questions' = FailureQuestions(questions)
            /\ Commit(isLoadingMore, inflight - 1)
       ELSE /\ inflight' = inflight - 1
            /\ UNCHANGED <<questions, isLoadingMore, mounted, fetchCount>>

\* The promise of onNeedMoreQuestions() rejects: the catch block logs and
\* setIsLoadingMore(false) runs.
FetchFailureBody ==
    /\ inflight > 0
    /\ lastOp' = Op("fetchFailure")
    /\ UNCHANGED <<initialQuestions, currentQuestionIndex, answers, score,
                   hasAnswered, isComplete, feedbackMessage, showExplanation>>
    /\ IF mounted
       THEN /\ questions' = FailureQuestions(questions)
            /\ Commit(FALSE, inflight - 1)
       ELSE /\ inflight' = inflight - 1
            /\ UNCHANGED <<questions, isLoadingMore, mounted, fetchCount>>

FetchFailure ==
    /\ FetchFailureBody
    /\ UNCHANGED <<object, onFinishResult>>

Next ==
    \/ \E label \in UserLabels : SelectAnswer(label)
    \/ ExplainThisConcept
    \/ NextQuestion
    \/ ShowResults
    \/ Reset
    \/ \E b \in Batches : FetchSuccess(b)
    \/ FetchFailure

Spec == Init /\ [][Next]_vars

----------------------------------------------------------------------------
(* The batch validator of the generation route *)

\* JSON values of a finished model output, tagged with their runtime type.
Undefined == [t |-> "undefined"]
Num == [t |-> "number"]
Str(x) == [t |-> "string", s |-> x]
Arr(xs) == [t |-> "array", items |-> xs]
Obj(q, o, a, e) ==
    [t |-> "object", question |-> q, options |-> o, answer |-> a, explanation |-> e]

\* z.string()
IsString(v) == v.t = "string"

\* z.array(z.string()).length(4)
OptionsOk(v) ==
    /\ v.t = "array"
    /\ \A i \in 1..Len(v.items) : IsString(v.items[i])
    /\ Len(v.items) = NumOptions

\* z.enum(["A", "B", "C", "D"])
AnswerOk(v) == v.t = "string" /\ v.s \in AnswerEnum

\* questionSchema: an object (unknown keys are ignored, a missing key reads
\* as undefined) whose four fields parse
QuestionOk(v) ==
    /\ v.t = "object"
    /\ IsString(v.question)
    /\ OptionsOk(v.options)
    /\ AnswerOk(v.answer)
    /\ IsString(v.explanation)

QuestionsOk_AtLeast(v) ==
    /\ v.t = "array"
    /\ \A i \in 1..Len(v.items) : QuestionOk(v.items[i])
    /\ Len(v.items) >= BatchSize

\* questionsSchema = z.array(questionSchema).length(4); TRUE when
\* safeParse(object) reports no error
QuestionsOk(v) ==
    /\ v.t = "array"
    /\ \A i \in 1..Len(v.items) : QuestionOk(v.items[i])
    /\ Len(v.items) = BatchSize

\* Field values a model output can carry.
StringsOf(n) == Arr([i \in 1..n |-> Str("o")])
QuestionValues == {Str("q"), Num, Undefined}
OptionsValues ==
    {StringsOf(n) : n \in (NumOptions - 1)..(NumOptions + 1)}
        \cup {Arr([i \in 1..NumOptions |-> IF i = 2 THEN Num ELSE Str("o")]),
              Str("o"), Undefined}
AnswerValues == {Str("A"), Str("D"), Str("E"), Str("a"), Num, Undefined}
ExplanationValues == {Str("e"), Undefined}

GoodItem == Obj(Str("q"), StringsOf(NumOptions), Str("B"), Str("e"))

Items ==
    {Obj(q, o, a, e) : q \in QuestionValues, o \in OptionsValues,
                       a \in AnswerValues, e \in ExplanationValues}
        \cup {Str("q"), Undefined}

\* Finished outputs: not an array at all, or an array of up to MaxItems
\* elements, all well formed but possibly one.
Outputs ==
    {Undefined, GoodItem}
        \cup {Arr([i \in 1..n |-> GoodItem]) : n \in 0..MaxItems}
        \cup {Arr([i \in 1..n |-> IF i = k THEN x ELSE GoodItem]) :
                n \in 1..MaxItems, k \in 1..MaxItems, x \in Items}

\* onFinish: ({ object }) => { const res = questionsSchema.safeParse(object);
\*                             if (res.error) throw new Error(...) }
OnFinish ==
    /\ onFinishResult = "pending"
    /\ onFinishResult' = (IF QuestionsOk(object) THEN "ok" ELSE "error")
    /\ UNCHANGED object
    /\ UNCHANGED quizVars

RouteInit ==
    /\ object \in Outputs
    /\ onFinishResult = "pending"

\* The quiz session at rest while the route is examined.
QuizIdle ==
    /\ initialQuestions = MkBatch("x", <<"A", "B", "A", "C">>)
    /\ questions = initialQuestions
    /\ currentQuestionIndex = 0
    /\ answers = <<>>
    /\ score = 0
    /\ hasAnswered = FALSE
    /\ isComplete = FALSE
    /\ feedbackMessage = NoFeedback
    /\ showExplanation = FALSE
    /\ mounted = TRUE
    /\ isLoadingMore = FALSE
    /\ inflight = 0
    /\ fetchCount = 0
    /\ lastOp = NoOp

InitRoute == QuizIdle /\ RouteInit

NextRoute == OnFinish

SpecRoute == InitRoute /\ [][NextRoute]_vars

----------------------------------------------------------------------------
(* The generation call behind onNeedMoreQuestions *)

\* One element of a model output with answer a.
GenItem(a) == Obj(Str("g"), StringsOf(NumOptions), Str(a), Str("e"))

\* Finished outputs of a generation call made for a running session.
GenOutputs ==
    { Arr(<<GenItem("B"), GenItem("A"), GenItem("D"), GenItem("B")>>),
      Arr(<<GenItem("B"), GenItem("A"), GenItem("D")>>),
      Arr(<<GenItem("B"), GenItem("A"), GenItem("D"), GenItem("B"), GenItem("C")>>),
      Arr(<<GenItem("B"),
            Obj(Str("g"), StringsOf(NumOptions - 1), Str("A"), Str("e")),
            GenItem("D"), GenItem("B")>>),
      Arr(<<GenItem("B"), GenItem("E"), GenItem("D"), GenItem("B")>>),
      Undefined }

\* The batch the caller reads from a finished, valid response.
ParseBatch(v) ==
    [i \in 1..Len(v.items) |->
        MkQuestion(<<v.items[i].question.s, i>>, v.items[i].answer.s)]

\* streamObject: the model finishes its output for the outstanding call.
StreamFinishes(o) ==
    /\ inflight = 1
    /\ onFinishResult = "none"
    /\ object' = o
    /\ onFinishResult' = "pending"
    /\ UNCHANGED quizVars

\* The generation call settles once onFinish has run: it returns the batch
\* when onFinish returned and fails when onFinish threw; the promise of
\* onNeedMoreQuestions() settles accordingly.
CallSettles ==
    /\ inflight = 1
    /\ onFinishResult \in {"ok", "error"}
    /\ onFinishResult' = "none"
    /\ UNCHANGED object
    /\ IF onFinishResult = "ok"
       THEN FetchSuccessBody(ParseBatch(object))
       ELSE FetchFailureBody

InitGeneration ==
    /\ QuizInit
    /\ object = Undefined
    /\ onFinishResult = "none"

NextGeneration ==
    \/ \E label \in UserLabels : SelectAnswer(label)
    \/ ExplainThisConcept
    \/ NextQuestion
    \/ ShowResults
    \/ Reset
    \/ \E o \in GenOutputs : StreamFinishes(o)
    \/ OnFinish
    \/ CallSettles

SpecGeneration == InitGeneration /\ [][NextGeneration]_vars

----------------------------------------------------------------------------
(* The fixed-list quiz (components/quiz.tsx): no background fetch *)

\* Array(questions.length).fill(null)
NullAnswers(len) == [i \in 1..len |-> NoAnswer]

InitFixed ==
    /\ initialQuestions \in Batches
    /\ questions = initialQuestions
    /\ currentQuestionIndex = 0
    /\ answers = NullAnswers(Len(questions))
    /\ score = 0
    /\ hasAnswered = FALSE
    /\ isComplete = FALSE
    /\ feedbackMessage = NoFeedback
    /\ showExplanation = FALSE
    /\ mounted = TRUE
    /\ isLoadingMore = FALSE
    /\ inflight = 0
    /\ fetchCount = 0
    /\ lastOp = NoOp
    /\ object = Undefined
    /\ onFinishResult = "none"

\* state the fixed-list component does not have
FixedUnused ==
    UNCHANGED <<initialQuestions, questions, showExplanation, isLoadingMore,
                inflight, fetchCount, object, onFinishResult>>

\* handleSelectAnswer of the fixed-list quiz
FixedSelectAnswer(label) ==
    /\ mounted /\ ~isComplete
    /\ lastOp' = OpArg("selectAnswer", label)
    /\ IF ~hasAnswered
       THEN /\ answers' = SetAt(answers, currentQuestionIndex, label)
            /\ hasAnswered' = TRUE
            /\ IF label = questions[currentQuestionIndex + 1].answer
               THEN /\ score' = score + 1
                    /\ feedbackMessage' = CorrectFeedback
               ELSE /\ score' = score
                    /\ feedbackMessage' =
                         IncorrectFeedback(questions[currentQuestionIndex + 1].answer)
       ELSE UNCHANGED <<answers, hasAnswered, score, feedbackMessage>>
    /\ UNCHANGED <<currentQuestionIndex, isComplete, mounted>>
    /\ FixedUnused

FixedNextQuestion_NoLastCheck ==
    /\ mounted /\ ~isComplete /\ hasAnswered
    /\ currentQuestionIndex' = currentQuestionIndex + 1
    /\ hasAnswered' = FALSE
    /\ isComplete' = isComplete
    /\ feedbackMessage' = NoFeedback
    /\ mounted' = ~RenderThrows(questions, currentQuestionIndex', isComplete')
    /\ lastOp' = Op("advance")
    /\ UNCHANGED <<answers, score>>
    /\ FixedUnused

\* onClick of the Next Question / See Results button, rendered when
\* hasAnswered: handleNextQuestion(); setFeedbackMessage('')
FixedNextQuestion ==
    /\ mounted /\ ~isComplete /\ hasAnswered
    /\ IF currentQuestionIndex < Len(questions) - 1
       THEN /\ currentQuestionIndex' = currentQuestionIndex + 1
            /\ hasAnswered' = FALSE
            /\ isComplete' = isComplete
       ELSE /\ isComplete' = TRUE
            /\ UNCHANGED <<currentQuestionIndex, hasAnswered>>
    /\ feedbackMessage' = NoFeedback
    /\ mounted' = ~RenderThrows(questions, currentQuestionIndex', isComplete')
    /\ lastOp' = Op("advance")
    /\ UNCHANGED <<answers, score>>
    /\ FixedUnused

\* onClick of the Try Again button of the results screen:
\* handleReset(); setFeedbackMessage('')
FixedReset ==
    /\ mounted /\ isComplete
    /\ answers' = NullAnswers(Len(questions))
    /\ currentQuestionIndex' = 0
    /\ score' = 0
    /\ hasAnswered' = FALSE
    /\ isComplete' = FALSE
    /\ feedbackMessage' = NoFeedback
    /\ mounted' = ~RenderThrows(questions, currentQuestionIndex', isComplete')
    /\ lastOp' = Op("reset")
    /\ FixedUnused

NextFixed ==
    \/ \E label \in UserLabels : FixedSelectAnswer(label)
    \/ FixedNextQuestion
    \/ FixedReset

SpecFixed == InitFixed /\ [][NextFixed]_vars

----------------------------------------------------------------------------
(* Derived views *)

\* the indices (1-based) that hold a recorded answer
Answered == {i \in 1..Len(answers) : answers[i] # NoAnswer}

ReviewQuestions_FullList == questions

\* <QuizReview questions={questions.slice(0, answers.length)} .../>
ReviewQuestions == Slice0(questions, Len(answers))

\* <QuizScore correctAnswers={score} totalQuestions={answers.length} />
TotalQuestions == Len(answers)

----------------------------------------------------------------------------
(* Properties of the lazy-loading quiz session *)

\* C1: in every reachable state 0 <= currentIndex < len(questions), so the
\* current question always exists.
C1_IndexInRange ==
    currentQuestionIndex >= 0 /\ currentQuestionIndex < Len(questions)

\* C2: when a background fetch fails no retry is scheduled automatically:
\* the step that handles the failure starts no new fetch.
C2_NoAutomaticRetry ==
    [][lastOp'.op = "fetchFailure" => fetchCount' = fetchCount]_vars

\* C3: at most one background fetch is in flight at any time, and an event
\* handled while isLoadingMore is true (other than the completion of the
\* fetch itself) starts no new call.
C3_AtMostOneFetch ==
    /\ [](inflight \in {0, 1})
    /\ [][(isLoadingMore /\ lastOp'.op \notin {"fetchSuccess", "fetchFailure"})
            => fetchCount' = fetchCount]_vars

\* C3 witness: the user advanced into the preloading zone a second time
\* while the fetch started earlier is still outstanding.
C3_Witness ==
    /\ lastOp.op = "advance" /\ mounted /\ ~isComplete
    /\ currentQuestionIndex = Len(questions) - 1
    /\ isLoadingMore /\ inflight = 1 /\ fetchCount = 1

\* C4: once the current question has an answer, a further selectAnswer with
\* the same or a different label leaves answers, score, the answered flag
\* and the feedback message unchanged.
C4_SelectIdempotent ==
    [][(lastOp'.op = "selectAnswer" /\ hasAnswered)
         => UNCHANGED <<answers, score, hasAnswered, feedbackMessage>>]_vars

\* C4 witness: B was clicked last while the recorded answer of the current
\* question is still A.
C4_Witness ==
    /\ lastOp = OpArg("selectAnswer", "B")
    /\ hasAnswered
    /\ currentQuestionIndex + 1 \in Answered
    /\ answers[currentQuestionIndex + 1] = "A"

\* C5: score equals the number of indices whose recorded answer equals that
\* question's answer field, and never exceeds the number of answered
\* questions.
C5_ScoreCountsCorrect ==
    /\ score = Cardinality({i \in Answered :
                              i <= Len(questions) /\ answers[i] = questions[i].answer})
    /\ score <= Cardinality(Answered)

\* C5 witness: several answers, some right and some wrong, some of them to
\* questions of an appended batch.
C5_Witness ==
    /\ Cardinality(Answered) > BatchSize
    /\ score >= 2
    /\ score < Cardinality(Answered)

\* C6: on the results screen the review has exactly as many rows as there
\* are recorded answers, the score total is that count, and the rows are
\* the answered questions, not the full known list.
C6_ReviewRowsAreAnswered ==
    isComplete =>
        /\ Len(ReviewQuestions) = Cardinality(Answered)
        /\ TotalQuestions = Cardinality(Answered)
        /\ \A i \in 1..Len(ReviewQuestions) :
              i \in Answered /\ ReviewQuestions[i] = questions[i]

\* C6 witness: results requested with answers recorded and fetched
\* questions left unanswered.
C6_Witness ==
    /\ isComplete /\ mounted
    /\ Cardinality(Answered) >= 3
    /\ Len(questions) > BatchSize
    /\ Len(questions) > Len(answers)

\* C7: reset yields index 0, score 0, empty answers, answered flag false,
\* completion false and a question list equal to the initial batch.
C7_ResetRestoresInitial ==
    [][lastOp'.op = "reset" =>
         /\ currentQuestionIndex' = 0
         /\ score' = 0
         /\ answers' = <<>>
         /\ hasAnswered' = FALSE
         /\ isComplete' = FALSE
         /\ questions' = initialQuestions]_vars

\* C7 witness: a reset that found appended batches, answers and a score.
C7_Witness ==
    /\ lastOp = OpArg("reset", "appended")
    /\ questions = initialQuestions
    /\ answers = <<>> /\ score = 0 /\ currentQuestionIndex = 0

\* C8: a background fetch is started whenever, and only when, the index is
\* within 2 of the end of the list, no fetch is in flight and the session
\* is not complete.  (A session whose render has thrown no longer exists.)
C8_FetchStartsIffTriggered ==
    /\ [](mounted =>
            ~(/\ currentQuestionIndex >= Len(questions) - 2
              /\ inflight = 0
              /\ ~isComplete))
    /\ [][fetchCount' # fetchCount =>
            /\ fetchCount' = fetchCount + 1
            /\ currentQuestionIndex' >= Len(questions') - 2
            /\ ~isComplete'
            /\ inflight' = 1
            /\ inflight = 0 \/ lastOp'.op \in {"fetchSuccess", "fetchFailure"}]_vars

\* C8 witness: the advance that reached index len - 2 started the fetch.
C8_Witness ==
    /\ lastOp.op = "advance"
    /\ currentQuestionIndex = Len(questions) - 2
    /\ isLoadingMore /\ inflight = 1 /\ fetchCount = 1

CanSelectAnswer == mounted /\ ~isComplete /\ ~hasAnswered
CanAdvance == mounted /\ ~isComplete /\ hasAnswered

\* C9: handling a failed background fetch leaves questions, currentIndex,
\* answers, score, the answered flag and the completion flag unchanged, and
\* selectAnswer / advance stay available as they were.
C9_FailureKeepsSession ==
    [][lastOp'.op = "fetchFailure" =>
         /\ UNCHANGED <<questions, currentQuestionIndex, answers, score,
                        hasAnswered, isComplete>>
         /\ CanSelectAnswer' = CanSelectAnswer
         /\ CanAdvance' = CanAdvance]_vars

\* C9 witness: a failure handled in the middle of a session with answers.
C9_Witness ==
    /\ lastOp.op = "fetchFailure"
    /\ mounted /\ ~isComplete
    /\ Cardinality(Answered) >= 3 /\ score >= 1
    /\ CanAdvance

\* C12: requestResults is available in every in-progress state, answered
\* or not, and completes the session at once; while complete no
\* selectAnswer or advance occurs and index, answers and score stay as
\* they are until reset.
C12_CompleteIsTerminalUntilReset ==
    /\ []((mounted /\ ~isComplete) => ENABLED ShowResults)
    /\ [][lastOp'.op = "requestResults" => (~isComplete /\ isComplete')]_vars
    /\ [][(isComplete /\ lastOp'.op # "reset") =>
            /\ isComplete'
            /\ lastOp'.op \notin {"selectAnswer", "advance", "requestResults"}
            /\ UNCHANGED <<currentQuestionIndex, answers, score>>]_vars

\* C12 witness: results were requested on an unanswered question and a
\* batch arrived afterwards while the session stayed complete.
C12_Witness ==
    /\ isComplete /\ mounted
    /\ lastOp.op = "fetchSuccess"
    /\ ~hasAnswered
    /\ currentQuestionIndex = 2 /\ Len(answers) = 2

\* C13: advance happens only on an answered question and moves to the next
\* index: the index grows by 1, the answered flag, the feedback message and
\* the shown explanation are cleared, answers, score and questions stay.
C13_AdvanceStep ==
    [][lastOp'.op = "advance" =>
         /\ hasAnswered /\ ~isComplete
         /\ currentQuestionIndex' = currentQuestionIndex + 1
         /\ hasAnswered' = FALSE
         /\ feedbackMessage' = NoFeedback
         /\ showExplanation' = FALSE
         /\ UNCHANGED <<answers, score, questions, isComplete>>]_vars

\* C13 witness: an advance from a wrongly answered question (its
\* explanation could be shown) to the next one.
C13_Witness ==
    /\ lastOp.op = "advance"
    /\ currentQuestionIndex = 1 /\ Len(answers) = 1
    /\ answers[1] # questions[1].answer
    /\ ~hasAnswered /\ ~showExplanation /\ feedbackMessage = NoFeedback

\* C14: while a fetch is outstanding the user can still answer and advance
\* on loaded questions, and when the batch arrives nothing recorded is lost:
\* answers, score, index and the answered flag are as they were and every
\* answered question is still at its index.
C14_NoProgressLostOnAppend ==
    /\ []((inflight = 1 /\ CanSelectAnswer) =>
            \A label \in UserLabels : ENABLED SelectAnswer(label))
    /\ []((inflight = 1 /\ CanAdvance /\ currentQuestionIndex < MaxIndex) =>
            ENABLED NextQuestion)
    /\ [][lastOp'.op = "fetchSuccess" =>
            /\ UNCHANGED <<answers, score, currentQuestionIndex, hasAnswered>>
            /\ \A i \in Answered :
                  i <= Len(questions) =>
                     (i <= Len(questions') /\ questions'[i] = questions[i])]_vars

\* C14 witness: the batch arrived after the user had answered and advanced
\* past the index at which the fetch was started.
C14_Witness ==
    /\ lastOp.op = "fetchSuccess" /\ mounted /\ ~isComplete
    /\ fetchCount = 1
    /\ currentQuestionIndex = 3 /\ hasAnswered
    /\ Len(answers) = 4 /\ score >= 1

\* C15: a fetch outstanding at reset is not cancelled: when it succeeds
\* right after the reset, the list is the initial batch followed by the
\* late batch.
C15_LateBatchAppendedAfterReset ==
    [][(lastOp.op = "reset" /\ inflight = 1 /\ lastOp'.op = "fetchSuccess") =>
         /\ Len(questions') = 2 * BatchSize
         /\ SubSeq(questions', 1, BatchSize) = initialQuestions
         /\ SubSeq(questions', BatchSize + 1, 2 * BatchSize) \in Batches]_vars

\* C15 witness: index 0 with a batch just appended; a fetch is only ever
\* started at index >= 2, so it was outstanding across requestResults and
\* reset.
C15_Witness ==
    /\ lastOp.op = "fetchSuccess" /\ mounted /\ ~isComplete
    /\ currentQuestionIndex = 0 /\ answers = <<>>
    /\ Len(questions) = 2 * BatchSize
    /\ SubSeq(questions, 1, BatchSize) = initialQuestions
    /\ SubSeq(questions, BatchSize + 1, 2 * BatchSize) # initialQuestions

\* The end-to-end scenario: from an initial batch of 4, Q1 answered
\* correctly, Q2 incorrectly, Q3 answered, a batch appended, results
\* requested.
C16_ScenarioEnd ==
    /\ isComplete /\ lastOp.op = "requestResults"
    /\ Len(answers) = 3 /\ currentQuestionIndex = 2 /\ hasAnswered
    /\ answers[1] = questions[1].answer
    /\ answers[2] # questions[2].answer
    /\ Len(questions) >= 5

\* C16 as stated: at the end of the scenario score = 2 and the review
\* shows 3 rows.
C16_ScenarioScoreIsTwo ==
    C16_ScenarioEnd => (score = 2 /\ Len(ReviewQuestions) = 3)

\* C16 amended: the advance to index 2 starts the fetch, and at the end of
\* the scenario the review shows 3 rows and score is 2 when Q3 was answered
\* correctly and 1 when it was not.
C16_ScenarioScore ==
    /\ [](C16_ScenarioEnd =>
            /\ score = (IF answers[3] = questions[3].answer THEN 2 ELSE 1)
            /\ Len(ReviewQuestions) = 3)
    /\ [][(lastOp'.op = "advance" /\ currentQuestionIndex' = 2
             /\ Len(questions') = BatchSize /\ fetchCount = 0) =>
            (fetchCount' = 1 /\ isLoadingMore')]_vars

\* C16 witness: the end of the scenario with Q3 answered correctly.
C16_Witness ==
    /\ C16_ScenarioEnd
    /\ answers[3] = questions[3].answer
    /\ score = 2 /\ Len(ReviewQuestions) = 3

\* C17: a first selectAnswer(label) on an unanswered question records the
\* label at the current index, sets the answered flag, adds 1 to score
\* exactly when the label is the question's answer, and leaves the index,
\* the question list and the completion flag unchanged.
C17_FirstSelectStep ==
    [][(lastOp'.op = "selectAnswer" /\ ~hasAnswered) =>
         /\ hasAnswered' = TRUE
         /\ Len(answers') = currentQuestionIndex + 1
         /\ answers'[currentQuestionIndex + 1] = lastOp'.arg
         /\ \A i \in 1..Len(answers) : answers'[i] = answers[i]
         /\ score' = score +
              (IF lastOp'.arg = questions[currentQuestionIndex + 1].answer
               THEN 1 ELSE 0)
         /\ UNCHANGED <<currentQuestionIndex, questions, isComplete>>]_vars

\* C17 witness: a first answer, wrong, after an earlier right one.
C17_Witness ==
    /\ lastOp.op = "selectAnswer" /\ hasAnswered
    /\ currentQuestionIndex = 1 /\ Len(answers) = 2
    /\ answers[2] = lastOp.arg
    /\ answers[2] # questions[2].answer
    /\ score = 1

\* C18: a successful fetch appends the batch at the end: the old list is a
\* prefix of the new one, the length grows by the batch size, and index,
\* answers and score are unchanged.
C18_AppendAtEnd ==
    [][(lastOp'.op = "fetchSuccess" /\ mounted) =>
         /\ Len(questions') = Len(questions) + BatchSize
         /\ SubSeq(questions', 1, Len(questions)) = questions
         /\ SubSeq(questions', Len(questions) + 1, Len(questions')) \in Batches
         /\ UNCHANGED <<currentQuestionIndex, answers, score>>]_vars

\* C18 witness: a batch different from the initial one appended in the
\* middle of a session with answers and a score.
C18_Witness ==
    /\ lastOp.op = "fetchSuccess" /\ mounted
    /\ Len(questions) = 2 * BatchSize
    /\ SubSeq(questions, 1, BatchSize) = initialQuestions
    /\ SubSeq(questions, BatchSize + 1, 2 * BatchSize) # initialQuestions
    /\ currentQuestionIndex = 2 /\ Len(answers) = 3 /\ score = 2

\* C19: the loading flag never stays stuck: it is true only while a call is
\* outstanding, and when a call settles the flag is cleared unless the
\* effect starts the next call in the same update.  (A session whose render
\* has thrown no longer exists.)
C19_FlagNotStuck ==
    /\ [](mounted => (isLoadingMore <=> inflight = 1))
    /\ [][(mounted /\ lastOp'.op \in {"fetchSuccess", "fetchFailure"}) =>
            (isLoadingMore' <=> fetchCount' = fetchCount + 1)]_vars

\* C19 witness: a call that failed late, on the results screen, left the
\* flag cleared.
C19_Witness ==
    /\ lastOp.op = "fetchFailure" /\ mounted
    /\ ~isLoadingMore /\ inflight = 0 /\ fetchCount >= 1

\* C20: the recorded answers have no gaps and agree with the answered flag:
\* the answered indices are 0..currentIndex-1, plus currentIndex exactly
\* when hasAnswered is true, and the array length is their number.
C20_AnswersContiguous ==
    /\ Answered = {i \in 1..(currentQuestionIndex + 1) :
                     i <= currentQuestionIndex \/ hasAnswered}
    /\ Len(answers) = Cardinality(Answered)

\* C20 witness: past the first batch, current question not yet answered.
C20_Witness ==
    /\ currentQuestionIndex = BatchSize + 1 /\ ~hasAnswered
    /\ Len(answers) = BatchSize + 1
    /\ mounted /\ ~isComplete

----------------------------------------------------------------------------
(* Properties of the batch validator *)

WellFormedQuestion(v) ==
    /\ v.t = "object"
    /\ v.question.t = "string"
    /\ v.options.t = "array"
    /\ Len(v.options.items) = 4
    /\ \A j \in 1..Len(v.options.items) : v.options.items[j].t = "string"
    /\ v.answer \in {Str("A"), Str("B"), Str("C"), Str("D")}
    /\ v.explanation.t = "string"

\* C10: the validator accepts a finished output if and only if it is an
\* array of exactly 4 questions, each with a text question, exactly 4 text
\* options, an answer in {A,B,C,D} and a text explanation.
C10_AcceptsIffFourWellFormed ==
    onFinishResult # "pending" =>
        (onFinishResult = "ok" <=>
            /\ object.t = "array"
            /\ Len(object.items) = 4
            /\ \A i \in 1..Len(object.items) : WellFormedQuestion(object.items[i]))

\* C10 witness: four questions, one of them with 3 options, rejected.
C10_Witness ==
    /\ onFinishResult = "error"
    /\ object.t = "array"
    /\ Len(object.items) = 4
    /\ \E i \in 1..4 :
          /\ object.items[i].t = "object"
          /\ object.items[i].options.t = "array"
          /\ Len(object.items[i].options.items) = 3
          /\ \A k \in (1..4) \ {i} : WellFormedQuestion(object.items[k])

----------------------------------------------------------------------------
(* Properties of the generation call *)

----------------------------------------------------------------------------
(* Properties of the fixed-list quiz *)

\* C21: in the fixed-list quiz, advance on the last question marks the quiz
\* complete instead of incrementing the index, so
\* 0 <= currentQuestionIndex < questions.length always holds, and the quiz
\* is complete only after the last question has been answered.
C21_FixedIndexInRange ==
    /\ [](/\ currentQuestionIndex >= 0
          /\ currentQuestionIndex < Len(questions)
          /\ mounted)
    /\ [](isComplete =>
            /\ currentQuestionIndex = Len(questions) - 1
            /\ hasAnswered
            /\ \A i \in 1..Len(questions) : answers[i] # NoAnswer)
    /\ [][(lastOp'.op = "advance"
             /\ currentQuestionIndex = Len(questions) - 1) =>
            (isComplete' /\ currentQuestionIndex' = currentQuestionIndex)]_vars
    /\ [][(lastOp'.op = "advance"
             /\ currentQuestionIndex < Len(questions) - 1) =>
            (~isComplete' /\ currentQuestionIndex' = currentQuestionIndex + 1)]_vars

\* C21 witness: See Results was clicked on the last question.
C21_Witness ==
    /\ isComplete /\ lastOp.op = "advance"
    /\ currentQuestionIndex = Len(questions) - 1
    /\ Len(answers) = Len(questions)
    /\ answers[Len(questions)] # NoAnswer
    /\ score >= 1 /\ score < Len(questions)

====
